---- MODULE Spec2Model ----
(***************************************************************************)
(* Model of pyairview_realtimeplot: three front ends for the pyairview     *)
(* spectrum scanner.                                                       *)
(*   basic GUI     src/gui-untested.py                                     *)
(*   extended GUI  src/gui_untested_too.py                                 *)
(*   console       src/realtime_plot.py                                    *)
(* A scan session is one run of ScannerThread.run (GUI) or start_scan     *)
(* (console).  The pyairview library is an external collaborator: every    *)
(* call's outcome (return value or exception) is an input of the step that *)
(* makes the call, and the library's scanning flag is part of the state.   *)
(***************************************************************************)
EXTENDS Integers, Sequences, FiniteSets, TLC

\* ---------------------------------------------------------------- bounds
\* scan sessions (Start presses) of one window in a behaviour
MaxSessions == 2

\* Thread records.  The window references one thread (self.scanner_thread); a
\* thread that Start has superseded may still be running.  Two records are
\* kept, so behaviours with more than two threads alive at once are not
\* explored: Start is taken only when a record is free.
Threads == {1, 2}

GuiVariants == {"basic", "extended"}
Variants == GuiVariants \cup {"console"}

VARIABLES
    variant,        \* which of the three programs runs
    pc,             \* pc[t]: position of session t's thread in run()
    calls,          \* calls[t]: pyairview calls session t has made, in order
                    \* (consecutive is_scanning polls logged once)
    msgs,           \* msgs[t]: status/error messages session t has emitted
    fails,          \* fails[t]: failures that happened in session t
    stopAt,         \* stopAt[t]: where t was when Stop set its flag ("none": never)
    sleptAfterStop, \* sleeps t began after Stop had set its flag: 0, 1, 2 = more than one
    interrupted,    \* console: KeyboardInterrupt has been delivered
    stopEvent,      \* scanner_stop_event, one Event per window
    scanning,       \* pyairview's scanning flag
    nthreads,       \* threads created so far
    cur,            \* self.scanner_thread: record of the last thread created (0: None)
    startBtn,       \* start_btn.isEnabled()
    stopBtn,        \* stop_btn.isEnabled()
    uiPc,           \* position of the UI thread: idle or inside a handler
    queue,          \* plot_queue / plot_data_queue: sweeps put and not yet removed
    delivered,      \* every sweep the library has handed to the callback, in order
    removed,        \* every sweep the consumer has taken off the queue, in order
    plotPc,         \* console: position of the plot thread ("off": not started)
    latest_data,    \* extended GUI: MainWindow.latest_data
    logging_enabled,\* extended GUI: MainWindow.logging_enabled
    win,            \* MainWindow's start_freq, end_freq, freq_step
    canvas,         \* SpectrumCanvas' start_freq, end_freq, freq_step
    plotted,        \* what the chart shows: the frequency axis and the sweep
    logFile,        \* ~/rssi_log.csv: whether it exists, and its rows
    exportFile,     \* the file of the last CSV export: its rows
    input_text,     \* console: the argument of a call of parse_rssi_input
    parsed,         \* console: what that call did (returned list, printed text)
    obs             \* what the handlers of the UI thread have been seen to do:
                    \*   drainFrom   sweeps delivered when the tick in progress began
                    \*   closeCalls  pyairview calls closeEvent has made, in order
                    \*   closeFail   a pyairview call of closeEvent raised
                    \*   accepted    closeEvent has accepted the close event

sessVars == <<pc, calls, msgs, fails, stopAt, sleptAfterStop, interrupted>>
uiVars == <<stopEvent, nthreads, cur, startBtn, stopBtn, uiPc>>
queueVars == <<queue, delivered, removed, plotPc>>
viewVars == <<latest_data, logging_enabled, win, canvas, plotted, logFile, exportFile>>
dataVars == <<queueVars, viewVars>>
parseVars == <<input_text, parsed>>
vars == <<variant, parseVars, obs, sessVars, uiVars, scanning, dataVars>>

\* sweeps the library delivers in a behaviour
MaxSweeps == 2
\* readings in one sweep
MaxLen == 2

\* ------------------------------------------------------------ constants
\* frequencies are in kHz, so that the 0.5 MHz step is a whole number
DEFAULT_START_FREQ == 2399000
DEFAULT_END_FREQ == 2485000
DEFAULT_FREQ_STEP == 500
DEFAULT_RSSI_MIN == -100
DEFAULT_RSSI_MAX == -40
\* tenths of a second
DEFAULT_SCAN_INTERVAL == 25

\* values a frequency spin box is set to (within its range 100..10000 MHz), and
\* values of the step spin box
FreqVals == {DEFAULT_START_FREQ, DEFAULT_END_FREQ}
StepVals == {DEFAULT_FREQ_STEP, DEFAULT_END_FREQ - DEFAULT_START_FREQ}

\* ------------------------------------------------------- small helpers
Emit(t, m) == msgs' = [msgs EXCEPT ![t] = Append(@, m)]
Call(t, c) == calls' = [calls EXCEPT ![t] = Append(@, c)]
\* is_scanning is polled without bound: consecutive polls are logged once
CallPoll(t) ==
    calls' = [calls EXCEPT ![t] =
                IF Len(@) > 0 /\ @[Len(@)] = "is_scanning" THEN @ ELSE Append(@, "is_scanning")]
Fail(t, f) == fails' = [fails EXCEPT ![t] = @ \cup {f}]
Goto(t, l) == pc' = [pc EXCEPT ![t] = l]

Has(s, x) == \E i \in 1..Len(s) : s[i] = x
Count(s, x) == Cardinality({i \in 1..Len(s) : s[i] = x})
Last(s) == s[Len(s)]

\* ----------------------------------------------------------- data types
\* A sweep is the list object the library hands to the callback: id tells two
\* lists with equal readings apart.  NoSweep is the initial latest_data, [].
NoSweep == [id |-> 0, data |-> <<>>]
Payload(k, n) == [i \in 1..n |-> 0 - (50 + 10 * i + k)]

\* MainWindow's parameters (scan_interval: extended GUI only)
DefaultConfig ==
    [start_freq |-> DEFAULT_START_FREQ, end_freq |-> DEFAULT_END_FREQ,
     freq_step |-> DEFAULT_FREQ_STEP,
     rssi_min |-> DEFAULT_RSSI_MIN, rssi_max |-> DEFAULT_RSSI_MAX,
     scan_interval |-> DEFAULT_SCAN_INTERVAL]

\* SpectrumCanvas(start_freq, end_freq, rssi_min, rssi_max, freq_step)
CanvasOf(w) ==
    [start_freq |-> w.start_freq, end_freq |-> w.end_freq,
     rssi_min |-> w.rssi_min, rssi_max |-> w.rssi_max, freq_step |-> w.freq_step]

\* the chart before anything is plotted: self.ax.plot([], [])
NoPlot == [freqs |-> <<>>, rssi |-> <<>>, id |-> 0]

\* A frequency is a fraction <<numerator, denominator>> of kHz, denominator > 0.
FracEq(a, b) == a[1] * b[2] = b[1] * a[2]
FracSub(a, b) == <<a[1] * b[2] - b[1] * a[2], a[2] * b[2]>>

\* np.linspace(start, stop, num, endpoint=False): step = (stop - start) / num
Linspace_NoEndpoint(start, stop, num) ==
    [i \in 1..num |-> <<start * num + (i - 1) * (stop - start), num>>]

\* np.linspace(start, stop, num): step = (stop - start) / (num - 1),
\* y = arange(num) * step + start, and y[-1] = stop when num > 1
Linspace(start, stop, num) ==
    [i \in 1..num |->
        IF num > 1 /\ i = num THEN <<stop, 1>>
        ELSE IF num = 1 THEN <<start, 1>>
        ELSE <<start * (num - 1) + (i - 1) * (stop - start), num - 1>>]

\* [start + i * step for i in range(num_points)]
StepAxis(start, step, num) ==
    [i \in 1..num |-> <<start + (i - 1) * step, 1>>]

\* --------------------------------------------------------------- Init
InitWith(logExists) ==
    /\ variant \in Variants
    /\ pc = [t \in Threads |-> IF variant = "console" /\ t = 1 THEN "connect" ELSE "none"]
    /\ calls = [t \in Threads |-> <<>>]
    /\ msgs = [t \in Threads |-> <<>>]
    /\ fails = [t \in Threads |-> {}]
    /\ stopAt = [t \in Threads |-> "none"]
    /\ sleptAfterStop = [t \in Threads |-> 0]
    /\ interrupted = FALSE
    /\ stopEvent = FALSE
    /\ scanning = FALSE
    /\ nthreads = IF variant = "console" THEN 1 ELSE 0
    /\ cur = IF variant = "console" THEN 1 ELSE 0
    /\ startBtn = TRUE
    /\ stopBtn = FALSE
    /\ uiPc = "idle"
    /\ queue = <<>>
    /\ delivered = <<>>
    /\ removed = <<>>
    /\ plotPc = "off"
    /\ latest_data = NoSweep
    /\ logging_enabled = FALSE
    /\ win = DefaultConfig
    /\ canvas = CanvasOf(DefaultConfig)
    /\ plotted = NoPlot
    /\ logFile = [exists |-> logExists, rows |-> <<>>]
    /\ exportFile = <<>>
    /\ obs = [drainFrom |-> 0, closeCalls |-> <<>>, closeFail |-> FALSE, accepted |-> FALSE]

\* parse_rssi_input has not been called
NotCalled == [status |-> "not_called", ret |-> <<>>, out |-> ""]
ParseIdle ==
    /\ input_text = [is_str |-> TRUE, text |-> <<>>]
    /\ parsed = NotCalled

\* the program starts; no ~/rssi_log.csv yet
Init == InitWith(FALSE) /\ ParseIdle

\* the program starts, with or without a ~/rssi_log.csv left by an earlier run
\* (its old rows are not looked at and are left out)
DataInit == ParseIdle /\ \E e \in BOOLEAN : InitWith(e)

\* ------------------------------------------- ScannerThread.run (both GUIs)
\* An exception raised inside the try block:
\*   except Exception as e: self.callback('__error__', f'Scanner error: {e}')
\* and control reaches the finally block.
Run_except(t, f) ==
    /\ Fail(t, f)
    /\ Emit(t, "error:Scanner error")
    /\ Goto(t, "finally")

\* Run_connect as it would be if a failed connect were tried again
Run_connect_Retry(t) ==
    /\ variant \in GuiVariants /\ pc[t] = "connect"
    /\ Call(t, "connect")
    /\ \E r \in {"true", "false", "raise"} :
        \/ r = "true" /\ Emit(t, "status:Connected") /\ Goto(t, "start_scan")
           /\ UNCHANGED fails
        \/ r = "false" /\ Emit(t, "error:Failed to connect")
           /\ Goto(t, IF Len(calls[t]) = 0 THEN "connect" ELSE "finally")
           /\ Fail(t, "connect_false")
        \/ r = "raise" /\ Run_except(t, "connect_raised")
    /\ UNCHANGED <<variant, parseVars, obs, dataVars, stopAt, sleptAfterStop, interrupted, uiVars, scanning>>

\* Run_connect as it would be without the return after a failed connect
Run_connect_NoReturn(t) ==
    /\ variant \in GuiVariants /\ pc[t] = "connect"
    /\ Call(t, "connect")
    /\ \E r \in {"true", "false", "raise"} :
        \/ r = "true" /\ Emit(t, "status:Connected") /\ Goto(t, "start_scan")
           /\ UNCHANGED fails
        \/ r = "false" /\ Emit(t, "error:Failed to connect") /\ Goto(t, "start_scan")
           /\ Fail(t, "connect_false")
        \/ r = "raise" /\ Run_except(t, "connect_raised")
    /\ UNCHANGED <<variant, parseVars, obs, dataVars, stopAt, sleptAfterStop, interrupted, uiVars, scanning>>

\* connected = pyairview.connect(self.port); on False the error callback and return
Run_connect(t) ==
    /\ variant \in GuiVariants /\ pc[t] = "connect"
    /\ Call(t, "connect")
    /\ \E r \in {"true", "false", "raise"} :
        \/ r = "true" /\ Emit(t, "status:Connected") /\ Goto(t, "start_scan")
           /\ UNCHANGED fails
        \/ r = "false" /\ Emit(t, "error:Failed to connect") /\ Goto(t, "finally")
           /\ Fail(t, "connect_false")
        \/ r = "raise" /\ Run_except(t, "connect_raised")
    /\ UNCHANGED <<variant, parseVars, obs, dataVars, stopAt, sleptAfterStop, interrupted, uiVars, scanning>>

\* pyairview.start_scan(callback=...)
Run_start_scan(t) ==
    /\ variant \in GuiVariants /\ pc[t] = "start_scan"
    /\ Call(t, "start_scan")
    /\ \E r \in {"ok", "raise"} :
        \/ r = "ok" /\ scanning' = TRUE /\ Goto(t, "loop") /\ UNCHANGED <<fails, msgs>>
        \/ r = "raise" /\ UNCHANGED scanning /\ Run_except(t, "start_scan_raised")
    /\ UNCHANGED <<variant, parseVars, obs, dataVars, stopAt, sleptAfterStop, interrupted, uiVars>>

\* while not self.stop_event.is_set() ...   (reached first after start_scan,
\* then each time a time.sleep returns)
Run_loop_event(t) ==
    /\ variant \in GuiVariants /\ pc[t] = "loop"
    /\ Goto(t, IF stopEvent THEN "post" ELSE "loop_scanning")
    /\ UNCHANGED <<variant, parseVars, obs, dataVars, calls, msgs, fails, stopAt, sleptAfterStop,
                   interrupted, uiVars, scanning>>

\* ... and pyairview.is_scanning(): time.sleep(...) when both hold
Run_loop_scanning(t) ==
    /\ variant \in GuiVariants /\ pc[t] = "loop_scanning"
    /\ CallPoll(t)
    /\ \E r \in {"ok", "raise"} :
        \/ r = "ok" /\ scanning
           /\ Goto(t, "loop")
           /\ sleptAfterStop' = [sleptAfterStop EXCEPT
                ![t] = IF stopAt[t] # "none" /\ @ < 2 THEN @ + 1 ELSE @]
           /\ UNCHANGED <<fails, msgs>>
        \/ r = "ok" /\ ~scanning
           /\ Goto(t, "post")
           /\ UNCHANGED <<sleptAfterStop, fails, msgs>>
        \/ r = "raise" /\ Run_except(t, "is_scanning_raised")
           /\ UNCHANGED sleptAfterStop
    /\ UNCHANGED <<variant, parseVars, obs, dataVars, stopAt, interrupted, uiVars, scanning>>

\* if pyairview.is_scanning(): (after the loop)
Run_post_is_scanning(t) ==
    /\ variant \in GuiVariants /\ pc[t] = "post"
    /\ CallPoll(t)
    /\ \E r \in {"ok", "raise"} :
        \/ r = "ok" /\ Goto(t, IF scanning THEN "stop_scan" ELSE "finally")
           /\ UNCHANGED <<fails, msgs>>
        \/ r = "raise" /\ Run_except(t, "is_scanning_raised")
    /\ UNCHANGED <<variant, parseVars, obs, dataVars, stopAt, sleptAfterStop, interrupted,
                   uiVars, scanning>>

\* pyairview.stop_scan()
Run_stop_scan(t) ==
    /\ variant \in GuiVariants /\ pc[t] = "stop_scan"
    /\ Call(t, "stop_scan")
    /\ \E r \in {"ok", "raise"} :
        \/ r = "ok" /\ scanning' = FALSE /\ Goto(t, "finally") /\ UNCHANGED <<fails, msgs>>
        \/ r = "raise" /\ UNCHANGED scanning /\ Run_except(t, "stop_scan_raised")
    /\ UNCHANGED <<variant, parseVars, obs, dataVars, stopAt, sleptAfterStop, interrupted, uiVars>>

\* Run_finally as it would be if the early return skipped the cleanup
Run_finally_NoDisconnect(t) ==
    /\ variant \in GuiVariants /\ pc[t] = "finally"
    /\ IF Has(msgs[t], "error:Failed to connect")
       THEN UNCHANGED <<calls, scanning, fails>>
       ELSE /\ Call(t, "disconnect")
            /\ \E r \in {"ok", "raise"} :
                \/ r = "ok" /\ scanning' \in {scanning, FALSE} /\ UNCHANGED fails
                \/ r = "raise" /\ UNCHANGED scanning /\ Fail(t, "disconnect_raised")
    /\ Emit(t, "status:Disconnected")
    /\ Goto(t, "done")
    /\ UNCHANGED <<variant, parseVars, obs, dataVars, stopAt, sleptAfterStop, interrupted, uiVars>>

\* finally: try: pyairview.disconnect() except Exception: pass
\*          self.callback('__status__', 'Disconnected')
\* A disconnect that succeeds may or may not end a scan still running.
Run_finally(t) ==
    /\ variant \in GuiVariants /\ pc[t] = "finally"
    /\ Call(t, "disconnect")
    /\ \E r \in {"ok", "raise"} :
        \/ r = "ok" /\ scanning' \in {scanning, FALSE} /\ UNCHANGED fails
        \/ r = "raise" /\ UNCHANGED scanning /\ Fail(t, "disconnect_raised")
    /\ Emit(t, "status:Disconnected")
    /\ Goto(t, "done")
    /\ UNCHANGED <<variant, parseVars, obs, dataVars, stopAt, sleptAfterStop, interrupted, uiVars>>

\* ------------------------------------------------ start_scan (console)
TryBody == {"connect", "start_scan", "loop", "stop_scan"}

\* except Exception as e: print(f"Error during scan: {e}"), then the finally block
Console_except(f) ==
    /\ Fail(1, f)
    /\ Emit(1, "print:Error during scan")
    /\ Goto(1, "finally")

\* connected = pyairview.connect("/dev/ttyACM0"); if not connected: print, return
Console_connect ==
    /\ variant = "console" /\ pc[1] = "connect"
    /\ Call(1, "connect")
    /\ \E r \in {"true", "false", "raise"} :
        \/ r = "true" /\ Emit(1, "print:Starting RSSI scan") /\ Goto(1, "start_scan")
           /\ UNCHANGED fails
        \/ r = "false" /\ Emit(1, "print:Failed to connect") /\ Goto(1, "finally")
           /\ Fail(1, "connect_false")
        \/ r = "raise" /\ Console_except("connect_raised")
    /\ UNCHANGED <<variant, parseVars, obs, dataVars, stopAt, sleptAfterStop, interrupted, uiVars, scanning>>

\* pyairview.start_scan(callback=scan_callback); plot_thread.start()
Console_start_scan ==
    /\ variant = "console" /\ pc[1] = "start_scan"
    /\ Call(1, "start_scan")
    /\ \E r \in {"ok", "raise"} :
        \/ r = "ok" /\ scanning' = TRUE /\ Goto(1, "loop") /\ plotPc' = "check"
           /\ UNCHANGED <<fails, msgs>>
        \/ r = "raise" /\ UNCHANGED <<scanning, plotPc>>
           /\ Console_except("start_scan_raised")
    /\ UNCHANGED <<variant, parseVars, obs, queue, delivered, removed, viewVars, stopAt, sleptAfterStop,
                   interrupted, uiVars>>

\* while pyairview.is_scanning(): time.sleep(0.5)
Console_loop ==
    /\ variant = "console" /\ pc[1] = "loop"
    /\ CallPoll(1)
    /\ \E r \in {"ok", "raise"} :
        \/ r = "ok" /\ scanning /\ Goto(1, "loop") /\ UNCHANGED <<fails, msgs>>
        \/ r = "ok" /\ ~scanning /\ Goto(1, "stop_scan") /\ UNCHANGED <<fails, msgs>>
        \/ r = "raise" /\ Console_except("is_scanning_raised")
    /\ UNCHANGED <<variant, parseVars, obs, dataVars, stopAt, sleptAfterStop, interrupted, uiVars, scanning>>

\* pyairview.stop_scan(), called whenever the loop ends
Console_stop_scan ==
    /\ variant = "console" /\ pc[1] = "stop_scan"
    /\ Call(1, "stop_scan")
    /\ \E r \in {"ok", "raise"} :
        \/ r = "ok" /\ scanning' = FALSE /\ Goto(1, "finally") /\ UNCHANGED <<fails, msgs>>
        \/ r = "raise" /\ UNCHANGED scanning /\ Console_except("stop_scan_raised")
    /\ UNCHANGED <<variant, parseVars, obs, dataVars, stopAt, sleptAfterStop, interrupted, uiVars>>

\* Ctrl-C while the main thread is inside the try body:
\* except KeyboardInterrupt: print("Scan interrupted by user."), then the finally block
Console_interrupt ==
    /\ variant = "console" /\ pc[1] \in TryBody /\ ~interrupted
    /\ interrupted' = TRUE
    /\ stopAt' = [stopAt EXCEPT ![1] = IF pc[1] = "connect" THEN "connecting" ELSE "running"]
    /\ Emit(1, "print:Scan interrupted")
    /\ Goto(1, "finally")
    /\ UNCHANGED <<variant, parseVars, obs, dataVars, calls, fails, sleptAfterStop, uiVars, scanning>>

\* finally: try: disconnect(); print("Disconnected ...") except: print("Error during cleanup ...")
Console_finally ==
    /\ variant = "console" /\ pc[1] = "finally"
    /\ Call(1, "disconnect")
    /\ \E r \in {"ok", "raise"} :
        \/ r = "ok" /\ scanning' \in {scanning, FALSE}
           /\ Emit(1, "print:Disconnected") /\ UNCHANGED fails
        \/ r = "raise" /\ UNCHANGED scanning
           /\ Emit(1, "print:Error during cleanup") /\ Fail(1, "disconnect_raised")
    /\ Goto(1, "done")
    /\ UNCHANGED <<variant, parseVars, obs, dataVars, stopAt, sleptAfterStop, interrupted, uiVars>>

\* ------------------------------------------------------ MainWindow (UI thread)
\* a record Start can use: never used, or of a thread that has finished
Free(t) == pc[t] \in {"none", "done"}

\* _on_start / _start_scan: clear the event, create and start a thread, flip the buttons.
\* self.scanner_thread now names the new thread; the records of finished threads,
\* which nothing references any more, are dropped.
OnStart ==
    /\ variant \in GuiVariants /\ uiPc = "idle" /\ startBtn
    /\ nthreads < MaxSessions
    /\ \E n \in Threads :
        /\ Free(n) /\ \A m \in Threads : Free(m) => n <= m
        /\ cur' = n
        /\ pc' = [t \in Threads |->
                    IF t = n THEN "connect" ELSE IF Free(t) THEN "none" ELSE pc[t]]
    /\ stopEvent' = FALSE
    /\ nthreads' = nthreads + 1
    /\ calls' = [t \in Threads |-> IF Free(t) THEN <<>> ELSE calls[t]]
    /\ msgs' = [t \in Threads |-> IF Free(t) THEN <<>> ELSE msgs[t]]
    /\ fails' = [t \in Threads |-> IF Free(t) THEN {} ELSE fails[t]]
    /\ stopAt' = [t \in Threads |-> IF Free(t) THEN "none" ELSE stopAt[t]]
    /\ sleptAfterStop' = [t \in Threads |-> IF Free(t) THEN 0 ELSE sleptAfterStop[t]]
    /\ startBtn' = FALSE /\ stopBtn' = TRUE
    /\ UNCHANGED <<variant, parseVars, obs, dataVars, interrupted, uiPc, scanning>>

Running(t) == pc[t] \notin {"none", "done"}

\* _on_stop / _stop_scan, first statement: self.scanner_stop_event.set()
OnStop_set ==
    /\ variant \in GuiVariants /\ uiPc = "idle" /\ stopBtn
    /\ stopEvent' = TRUE
    /\ stopAt' = [t \in Threads |->
                    IF t = cur /\ Running(t) /\ stopAt[t] = "none"
                    THEN (IF pc[t] = "connect" THEN "connecting" ELSE "running")
                    ELSE stopAt[t]]
    /\ uiPc' = "stop_is_scanning"
    /\ UNCHANGED <<variant, parseVars, obs, dataVars, pc, calls, msgs, fails, sleptAfterStop, interrupted,
                   nthreads, cur, startBtn, stopBtn, scanning>>

\* the rest of the handler once the try block is over
StopButtons ==
    /\ startBtn' = TRUE /\ stopBtn' = FALSE /\ uiPc' = "idle"

\* try: if pyairview.is_scanning(): ... except Exception: pass
OnStop_is_scanning ==
    /\ uiPc = "stop_is_scanning"
    /\ \E r \in {"ok", "raise"} :
        \/ r = "ok" /\ scanning /\ uiPc' = "stop_stop_scan"
           /\ UNCHANGED <<startBtn, stopBtn>>
        \/ r = "ok" /\ ~scanning /\ StopButtons
        \/ r = "raise" /\ StopButtons
    /\ UNCHANGED <<variant, parseVars, obs, dataVars, sessVars, stopEvent, nthreads, cur, scanning>>

\* pyairview.stop_scan() in the handler, then the buttons
OnStop_stop_scan ==
    /\ uiPc = "stop_stop_scan"
    /\ \E r \in {"ok", "raise"} :
        \/ r = "ok" /\ scanning' = FALSE
        \/ r = "raise" /\ UNCHANGED scanning
    /\ StopButtons
    /\ UNCHANGED <<variant, parseVars, obs, dataVars, sessVars, stopEvent, nthreads, cur>>

\* closeEvent, first statement: self.scanner_stop_event.set()
Close_set ==
    /\ variant \in GuiVariants /\ uiPc = "idle"
    /\ stopEvent' = TRUE
    /\ stopAt' = [t \in Threads |->
                    IF t = cur /\ Running(t) /\ stopAt[t] = "none"
                    THEN (IF pc[t] = "connect" THEN "connecting" ELSE "running")
                    ELSE stopAt[t]]
    /\ uiPc' = "close_is_scanning"
    /\ UNCHANGED <<variant, parseVars, obs, dataVars, pc, calls, msgs, fails, sleptAfterStop,
                   interrupted, nthreads, cur, startBtn, stopBtn, scanning>>

\* closeEvent makes the pyairview call c, with outcome o
CloseCall(c, o) ==
    [obs EXCEPT !.closeCalls = Append(@, c), !.closeFail = @ \/ (o = "raise")]

\* except Exception: pass, then event.accept(); also the end of the try block
CloseAccept(c, o) ==
    /\ obs' = [CloseCall(c, o) EXCEPT !.accepted = TRUE]
    /\ uiPc' = "closed"

\* closeEvent: if pyairview.is_scanning():
Close_is_scanning ==
    /\ uiPc = "close_is_scanning"
    /\ \E r \in {"ok", "raise"} :
        \/ r = "ok" /\ scanning /\ uiPc' = "close_stop_scan"
           /\ obs' = CloseCall("is_scanning:True", r)
        \/ r = "ok" /\ ~scanning /\ uiPc' = "close_disconnect"
           /\ obs' = CloseCall("is_scanning:False", r)
        \/ r = "raise" /\ CloseAccept("is_scanning", r)
    /\ UNCHANGED <<variant, parseVars, dataVars, sessVars, stopEvent, nthreads, cur,
                   startBtn, stopBtn, scanning>>

\* closeEvent: pyairview.stop_scan()
Close_stop_scan ==
    /\ uiPc = "close_stop_scan"
    /\ \E r \in {"ok", "raise"} :
        \/ r = "ok" /\ scanning' = FALSE /\ uiPc' = "close_disconnect"
           /\ obs' = CloseCall("stop_scan", r)
        \/ r = "raise" /\ UNCHANGED scanning /\ CloseAccept("stop_scan", r)
    /\ UNCHANGED <<variant, parseVars, dataVars, sessVars, stopEvent, nthreads, cur,
                   startBtn, stopBtn>>

\* closeEvent: pyairview.disconnect(), then event.accept()
Close_disconnect ==
    /\ uiPc = "close_disconnect"
    /\ \E r \in {"ok", "raise"} :
        /\ \/ r = "ok" /\ scanning' \in {scanning, FALSE}
           \/ r = "raise" /\ UNCHANGED scanning
        /\ CloseAccept("disconnect", r)
    /\ UNCHANGED <<variant, parseVars, dataVars, sessVars, stopEvent, nthreads, cur,
                   startBtn, stopBtn>>

\* ------------------------------------------------------------- library
\* the scan ends by itself (device gone, library's scan thread finished)
Lib_scan_ends ==
    /\ scanning
    /\ scanning' = FALSE
    /\ UNCHANGED <<variant, parseVars, obs, dataVars, sessVars, uiVars>>

\* ------------------------------------------------------------ data path
\* a put that places the sweep at the head
QueuePut_Front(q, sw) == <<sw>> \o q

\* Queue.put: at the tail
QueuePut(q, sw) == Append(q, sw)

\* the library calls the registered callback with a sweep:
\* _scanner_callback_from_thread('rssi', payload) / _scanner_callback / scan_callback
\* n is the number of readings of the sweep
Deliver(n) ==
    /\ scanning
    /\ Len(delivered) < MaxSweeps
    /\ LET sw == [id |-> Len(delivered) + 1, data |-> Payload(Len(delivered) + 1, n)]
       IN  /\ delivered' = Append(delivered, sw)
           /\ queue' = QueuePut(queue, sw)
    /\ UNCHANGED <<variant, parseVars, obs, sessVars, uiVars, scanning, removed, plotPc, viewVars>>

\* the frequency axis plot_rssi computes for num readings.
\* basic: start + i*step, then "truncate or pad" to the length of the readings;
\* extended: np.linspace(start, end, num); console: START_FREQ + i*FREQ_STEP
Axis(v, c, num) ==
    CASE v = "basic" ->
            LET f == StepAxis(c.start_freq, c.freq_step, num)
            IN  IF Len(f) > num THEN SubSeq(f, 1, num)
                ELSE IF Len(f) < num THEN Linspace(c.start_freq, c.end_freq, num)
                ELSE f
      [] v = "extended" -> Linspace(c.start_freq, c.end_freq, num)
      [] OTHER -> StepAxis(DEFAULT_START_FREQ, DEFAULT_FREQ_STEP, num)

\* SpectrumCanvas.plot_rssi: nothing for an empty list, else the new chart
plot_rssi(v, c, sw, old) ==
    IF sw.data = <<>> THEN old
    ELSE [freqs |-> Axis(v, c, Len(sw.data)), rssi |-> sw.data, id |-> sw.id]

\* rows of the two CSV files
LogHeader == [kind |-> "Timestamp,Frequency (MHz),RSSI (dBm)", ts |-> 0, freq |-> <<0, 1>>, rssi |-> 0]
ExportHeader == [kind |-> "Frequency (MHz),RSSI (dBm)", ts |-> 0, freq |-> <<0, 1>>, rssi |-> 0]
Row(ts, fr, val) == [kind |-> "row", ts |-> ts, freq |-> fr, rssi |-> val]

\* rows that pair the frequencies with the readings taken from the far end
ZipRows_Reversed(ts, freqs, data) ==
    [i \in 1..(IF Len(freqs) < Len(data) THEN Len(freqs) ELSE Len(data)) |->
        Row(ts, freqs[i], data[Len(data) + 1 - i])]

\* for fr, val in zip(freqs, data): one row per pair
ZipRows(ts, freqs, data) ==
    [i \in 1..(IF Len(freqs) < Len(data) THEN Len(freqs) ELSE Len(data)) |->
        Row(ts, freqs[i], data[i])]

\* values datetime.now() takes
TimeVals == {1, 2}

\* MainWindow._log_data(data) at time ts: append to ~/rssi_log.csv
log_data(file, w, data, ts) ==
    LET freqs == Linspace(w.start_freq, w.end_freq, Len(data))
        new_file == ~file.exists
    IN  [exists |-> TRUE,
         rows |-> file.rows \o (IF new_file THEN <<LogHeader>> ELSE <<>>)
                            \o ZipRows(ts, freqs, data)]

\* the file _export_csv writes for the readings data
export_rows(w, data) ==
    <<ExportHeader>> \o ZipRows(0, Linspace(w.start_freq, w.end_freq, Len(data)), data)

\* the QTimer fires: _process_plot_queue / _update_plot begins
Tick_begin ==
    /\ variant \in GuiVariants /\ uiPc = "idle"
    /\ uiPc' = "tick"
    /\ obs' = [obs EXCEPT !.drainFrom = Len(delivered)]
    /\ UNCHANGED <<variant, parseVars, sessVars, stopEvent, nthreads, cur, startBtn, stopBtn,
                   scanning, dataVars>>

\* a tick that remembers whatever it takes off the queue, empty lists included
Tick_get_Always ==
    /\ variant \in GuiVariants /\ uiPc = "tick" /\ queue # <<>>
    /\ LET sw == Head(queue)
       IN  /\ queue' = Tail(queue)
           /\ removed' = Append(removed, sw)
           /\ latest_data' = IF variant = "extended" THEN sw ELSE latest_data
           /\ plotted' = plot_rssi(variant, canvas, sw, plotted)
           /\ IF variant = "extended" /\ logging_enabled /\ sw.data # <<>>
              THEN \E ts \in TimeVals : logFile' = log_data(logFile, win, sw.data, ts)
              ELSE UNCHANGED logFile
    /\ UNCHANGED <<variant, parseVars, obs, sessVars, uiVars, scanning, delivered, plotPc,
                   logging_enabled, win, canvas, exportFile>>

\* data = self.plot_queue.get_nowait() returns a sweep: if it is a non-empty list,
\* (extended: remember it,) plot it (extended: and log it when logging is enabled)
Tick_get ==
    /\ variant \in GuiVariants /\ uiPc = "tick" /\ queue # <<>>
    /\ LET sw == Head(queue)
       IN  /\ queue' = Tail(queue)
           /\ removed' = Append(removed, sw)
           /\ IF sw.data # <<>>
              THEN /\ latest_data' = IF variant = "extended" THEN sw ELSE latest_data
                   /\ plotted' = plot_rssi(variant, canvas, sw, plotted)
                   /\ IF variant = "extended" /\ logging_enabled
                      THEN \E ts \in TimeVals : logFile' = log_data(logFile, win, sw.data, ts)
                      ELSE UNCHANGED logFile
              ELSE UNCHANGED <<latest_data, plotted, logFile>>
    /\ UNCHANGED <<variant, parseVars, obs, sessVars, uiVars, scanning, delivered, plotPc,
                   logging_enabled, win, canvas, exportFile>>

\* a handler that returns after any get, whether the queue is empty or not
Tick_empty_Early ==
    /\ variant \in GuiVariants /\ uiPc = "tick"
    /\ uiPc' = "idle"
    /\ obs' = [obs EXCEPT !.drainFrom = 0]
    /\ UNCHANGED <<variant, parseVars, sessVars, stopEvent, nthreads, cur, startBtn, stopBtn,
                   scanning, dataVars>>

\* get_nowait raises Empty: the handler returns
Tick_empty ==
    /\ variant \in GuiVariants /\ uiPc = "tick" /\ queue = <<>>
    /\ uiPc' = "idle"
    /\ obs' = [obs EXCEPT !.drainFrom = 0]
    /\ UNCHANGED <<variant, parseVars, sessVars, stopEvent, nthreads, cur, startBtn, stopBtn,
                   scanning, dataVars>>

\* console plot thread: if not plot_data_queue.empty():
Plot_check ==
    /\ variant = "console" /\ plotPc = "check" /\ queue # <<>>
    /\ plotPc' = "get"
    /\ UNCHANGED <<variant, parseVars, obs, sessVars, uiVars, scanning, queue, delivered, removed, viewVars>>

\* console plot thread: rssi_values = plot_data_queue.get(), then the plot
Plot_get ==
    /\ variant = "console" /\ plotPc = "get" /\ queue # <<>>
    /\ LET sw == Head(queue)
       IN  /\ queue' = Tail(queue)
           /\ removed' = Append(removed, sw)
           /\ plotted' = [freqs |-> Axis(variant, canvas, Len(sw.data)),
                          rssi |-> sw.data, id |-> sw.id]
    /\ plotPc' = "check"
    /\ UNCHANGED <<variant, parseVars, obs, sessVars, uiVars, scanning, delivered, latest_data,
                   logging_enabled, win, canvas, logFile, exportFile>>

\* MainWindow._toggle_logging(state), extended GUI
ToggleLogging ==
    /\ variant = "extended" /\ uiPc = "idle"
    /\ logging_enabled' = ~logging_enabled
    /\ UNCHANGED <<variant, parseVars, obs, sessVars, uiVars, scanning, queueVars, latest_data, win,
                   canvas, plotted, logFile, exportFile>>

\* values an RSSI spin box is set to (within its range -200..0)
RssiVals == {DEFAULT_RSSI_MIN, DEFAULT_RSSI_MAX, (DEFAULT_RSSI_MIN + DEFAULT_RSSI_MAX) \div 2}

\* values a spin box can be set to, within its range
SpinVals(f) ==
    CASE f \in {"start_freq", "end_freq"} -> FreqVals
      [] f = "freq_step" -> StepVals
      [] f \in {"rssi_min", "rssi_max"} -> RssiVals
      [] OTHER -> {DEFAULT_SCAN_INTERVAL, 4 * DEFAULT_SCAN_INTERVAL}

\* SpectrumCanvas.update_limits(start_freq, end_freq, rssi_min, rssi_max, freq_step)
update_limits(w) == CanvasOf(w)

\* MainWindow._update_config, extended GUI: one of the spin boxes F changed; read
\* them all and pass them to the canvas
UpdateConfig(F) ==
    /\ variant = "extended" /\ uiPc = "idle"
    /\ \E f \in F : \E v \in SpinVals(f) :
        /\ v # win[f]
        /\ win' = [win EXCEPT ![f] = v]
    /\ canvas' = update_limits(win')
    /\ UNCHANGED <<variant, parseVars, obs, sessVars, uiVars, scanning, queueVars, latest_data,
                   logging_enabled, plotted, logFile, exportFile>>

\* _update_limits_from_ui without its two validation tests
UpdateLimits_NoValidate(F) ==
    /\ variant = "basic" /\ uiPc = "idle"
    /\ \E f \in F : \E v \in SpinVals(f) :
        /\ v # win[f]
        /\ win' = [win EXCEPT ![f] = v]
    /\ canvas' = update_limits(win')
    /\ UNCHANGED <<variant, parseVars, obs, sessVars, uiVars, scanning, queueVars, latest_data,
                   logging_enabled, plotted, logFile, exportFile>>

\* MainWindow._update_limits_from_ui, basic GUI: one of the spin boxes F changed;
\* read them all, validate, and pass them to the canvas
UpdateLimits(F) ==
    /\ variant = "basic" /\ uiPc = "idle"
    /\ \E f \in F : \E v \in SpinVals(f) :
        /\ v # win[f]
        /\ win' = [win EXCEPT ![f] = v]
    /\ canvas' = IF win'.start_freq >= win'.end_freq THEN canvas
                 ELSE IF win'.rssi_min >= win'.rssi_max THEN canvas
                 ELSE update_limits(win')
    /\ UNCHANGED <<variant, parseVars, obs, sessVars, uiVars, scanning, queueVars, latest_data,
                   logging_enabled, plotted, logFile, exportFile>>

\* MainWindow._export_csv, extended GUI; path is what the file dialog returns
ExportCsv ==
    /\ variant = "extended" /\ uiPc = "idle"
    /\ \E path \in {"", "rssi_export.csv"} :
        IF latest_data.data = <<>> \/ path = ""
        THEN UNCHANGED exportFile
        ELSE exportFile' = export_rows(win, latest_data.data)
    /\ UNCHANGED <<variant, parseVars, obs, sessVars, uiVars, scanning, queueVars, latest_data,
                   logging_enabled, win, canvas, plotted, logFile>>

\* ------------------------------------------- parse_rssi_input (console)
\* An input text is a sequence of characters.  "H[" stands for a stretch of
\* text that the head of the pattern, "Received \d+ RSSI level readings: \[",
\* matches; "1" is a digit; the rest are themselves.
Chars == {"H[", "]", ",", "1", "-", " ", "\n"}
\* length of an input text
MaxText == 6
Texts == UNION {[1..n -> Chars] : n \in 0..MaxText}
\* the arguments of a call: a text, or an object that is not a str
Inputs == {[is_str |-> TRUE, text |-> s] : s \in Texts}
              \cup {[is_str |-> FALSE, text |-> <<>>]}

MinOf(S) == CHOOSE x \in S : \A y \in S : x <= y
MaxOf(S) == CHOOSE x \in S : \A y \in S : x >= y

\* positions of a "]" that "\[(.*)\]" can end at when the head is at i: "."
\* matches every character but the newline
Closers(text, i) ==
    {j \in (i + 1)..Len(text) : text[j] = "]" /\ \A k \in (i + 1)..(j - 1) : text[k] # "\n"}

\* re.search(pattern, text): the leftmost position the pattern matches at, and,
\* ".*" being greedy, the last "]" it can end at; <<0, 0>> is None
re_search(text) ==
    LET heads == {i \in 1..Len(text) : text[i] = "H[" /\ Closers(text, i) # {}}
    IN  IF heads = {} THEN <<0, 0>>
        ELSE <<MinOf(heads), MaxOf(Closers(text, MinOf(heads)))>>

\* match.group(1)
group1(text, m) == SubSeq(text, m[1] + 1, m[2] - 1)

\* str.split(",")
RECURSIVE split(_)
split(s) ==
    LET commas == {i \in 1..Len(s) : s[i] = ","}
    IN  IF commas = {} THEN <<s>>
        ELSE <<SubSeq(s, 1, MinOf(commas) - 1)>>
                \o split(SubSeq(s, MinOf(commas) + 1, Len(s)))

\* str.strip() as int() applies it
strip(s) ==
    LET ink == {i \in 1..Len(s) : s[i] \notin {" ", "\n"}}
    IN  IF ink = {} THEN <<>> ELSE SubSeq(s, MinOf(ink), MaxOf(ink))

\* the digits of a literal, after its sign
Digits(s) == IF strip(s) # <<>> /\ strip(s)[1] = "-" THEN Tail(strip(s)) ELSE strip(s)

\* int(s) returns: s is blanks, an optional sign, one or more digits, blanks
IsIntLiteral(s) == Digits(s) # <<>> /\ \A i \in 1..Len(Digits(s)) : Digits(s)[i] = "1"

RECURSIVE DecimalValue(_)
DecimalValue(d) ==
    IF d = <<>> THEN 0 ELSE 10 * DecimalValue(SubSeq(d, 1, Len(d) - 1)) + 1

\* int(s) when it returns
int(s) ==
    IF strip(s)[1] = "-" THEN 0 - DecimalValue(Digits(s)) ELSE DecimalValue(Digits(s))

\* what the body of the try block does: return a list, printing or not, or
\* raise (TypeError from re.search, ValueError from int)
parse_try(input) ==
    IF ~input.is_str THEN [status |-> "raise", ret |-> <<>>, out |-> ""]
    ELSE LET match == re_search(input.text)
             pieces == split(group1(input.text, match))
         IN  IF match # <<0, 0>>
             THEN IF \A k \in 1..Len(pieces) : IsIntLiteral(pieces[k])
                  THEN [status |-> "return",
                        ret |-> [k \in 1..Len(pieces) |-> int(pieces[k])], out |-> ""]
                  ELSE [status |-> "raise", ret |-> <<>>, out |-> ""]
             ELSE [status |-> "return", ret |-> <<>>,
                   out |-> "No valid RSSI data found in the input."]

\* the function without its except clause
parse_rssi_input_NoExcept(input) == parse_try(input)

\* parse_rssi_input(input_text): except Exception: print, return []
parse_rssi_input(input) ==
    IF parse_try(input).status = "raise"
    THEN [status |-> "return", ret |-> <<>>, out |-> "Error parsing input"]
    ELSE parse_try(input)

\* a call of parse_rssi_input
Parse ==
    /\ variant = "console" /\ parsed = NotCalled
    /\ parsed' = parse_rssi_input(input_text)
    /\ UNCHANGED <<variant, input_text, obs, sessVars, uiVars, scanning, dataVars>>

\* ---------------------------------------------------------------- Next
RunStep(t) ==
    \/ Run_connect(t)
    \/ Run_start_scan(t)
    \/ Run_loop_event(t)
    \/ Run_loop_scanning(t)
    \/ Run_post_is_scanning(t)
    \/ Run_stop_scan(t)
    \/ Run_finally(t)

ConsoleStep ==
    \/ Console_connect
    \/ Console_start_scan
    \/ Console_loop
    \/ Console_stop_scan
    \/ Console_interrupt
    \/ Console_finally

Next ==
    \/ \E t \in Threads : RunStep(t)
    \/ ConsoleStep
    \/ OnStart
    \/ OnStop_set
    \/ OnStop_is_scanning
    \/ OnStop_stop_scan
    \/ Lib_scan_ends

Spec == Init /\ [][Next]_vars

\* The data path, followed through the first scan session of a window, the
\* library calls of the session's thread succeeding (connect returning True),
\* and each sweep being empty or of MaxLen readings.
NextData ==
    \/ \E t \in Threads : RunStep(t) /\ fails' = fails
    \/ ConsoleStep /\ fails' = fails
    \/ OnStart /\ nthreads = 0
    \/ OnStop_set
    \/ OnStop_is_scanning
    \/ OnStop_stop_scan
    \/ Lib_scan_ends
    \/ \E n \in {0, MaxLen} : Deliver(n)
    \/ Tick_begin
    \/ Tick_get
    \/ Tick_empty
    \/ Plot_check
    \/ Plot_get
    \/ ToggleLogging
    \/ UpdateConfig({"freq_step", "scan_interval"})
    \/ UpdateLimits({"freq_step"})

SpecData == DataInit /\ [][NextData]_vars

\* The window is closed at any point of its first scan session, whose
\* library calls may fail.
NextClose ==
    \/ \E t \in Threads : RunStep(t)
    \/ OnStart /\ nthreads = 0
    \/ OnStop_set
    \/ OnStop_is_scanning
    \/ OnStop_stop_scan
    \/ Lib_scan_ends
    \/ Close_set
    \/ Close_is_scanning
    \/ Close_stop_scan
    \/ Close_disconnect

\* one of the two GUIs starts
CloseInit == Init /\ variant \in GuiVariants

SpecClose == CloseInit /\ [][NextClose]_vars

\* The timer tick of the two GUIs against the scanner callback, for the sweeps
\* of the first scan session.  The UI thread is scheduled: a handler that can
\* take its next step takes it.  The library delivers at most MaxSweeps
\* sweeps, so the callback cannot outrun the drain for ever.
NextTick ==
    \/ \E t \in Threads : RunStep(t) /\ fails' = fails
    \/ OnStart /\ nthreads = 0
    \/ OnStop_set
    \/ OnStop_is_scanning
    \/ OnStop_stop_scan
    \/ Lib_scan_ends
    \/ \E n \in {0, MaxLen} : Deliver(n)
    \/ Tick_begin
    \/ Tick_get
    \/ Tick_empty
    \/ ToggleLogging

\* one of the two GUIs starts
TickInit == DataInit /\ variant \in GuiVariants

SpecTick == TickInit /\ [][NextTick]_vars /\ WF_vars(Tick_get) /\ WF_vars(Tick_empty)

\* The chart, followed for the sweeps of the first scan session while the
\* user changes the frequency settings; Stop is not pressed, the thread's
\* library calls succeed and the scan may end by itself.
NextView ==
    \/ \E t \in Threads : RunStep(t) /\ fails' = fails
    \/ ConsoleStep /\ fails' = fails
    \/ OnStart /\ nthreads = 0
    \/ Lib_scan_ends
    \/ \E n \in 0..MaxLen : Deliver(n)
    \/ Tick_begin
    \/ Tick_get
    \/ Tick_empty
    \/ Plot_check
    \/ Plot_get
    \/ UpdateConfig({"start_freq", "end_freq", "freq_step"})
    \/ UpdateLimits({"start_freq", "end_freq", "freq_step"})

SpecView == DataInit /\ [][NextView]_vars

\* The two CSV files of the extended GUI, followed for the sweeps of the first
\* scan session while the user toggles logging, exports and changes the end
\* frequency.
NextCsv ==
    \/ \E t \in Threads : RunStep(t) /\ fails' = fails
    \/ OnStart /\ nthreads = 0
    \/ Lib_scan_ends
    \/ \E n \in {0, MaxLen} : Deliver(n)
    \/ Tick_begin
    \/ Tick_get
    \/ Tick_empty
    \/ ToggleLogging
    \/ UpdateConfig({"end_freq"})
    \/ ExportCsv

\* the extended GUI starts
CsvInit == DataInit /\ variant = "extended"

SpecCsv == CsvInit /\ [][NextCsv]_vars

\* The spin boxes of the basic GUI, changed one at a time in any order.
NextLimits ==
    UpdateLimits({"start_freq", "end_freq", "freq_step", "rssi_min", "rssi_max"})

\* the basic GUI starts
LimitsInit == Init /\ variant = "basic"

SpecLimits == LimitsInit /\ [][NextLimits]_vars

\* parse_rssi_input called once, on any input
ParseInit ==
    /\ InitWith(FALSE) /\ variant = "console"
    /\ input_text \in Inputs
    /\ parsed = NotCalled

NextParse == Parse

SpecParse == ParseInit /\ [][NextParse]_vars

\* ====================================================================
\* Scan sessions: claims C1, C2, C4, C5, C10 (checked under Spec)
\* ====================================================================

\* C1 (as claimed): once Stop has set the stop flag for a running session, that
\* session's thread begins at most one further polling sleep before it leaves
\* its monitoring loop.
C1_StopHaltsLoop ==
    \A t \in Threads : sleptAfterStop[t] <= 1

\* C2: every run of a scan session (GUI thread or console start_scan) has
\* called pyairview.disconnect when it ends, whatever path it took.
C2_DisconnectBeforeEnd ==
    \A t \in Threads : pc[t] = "done" => Count(calls[t], "disconnect") = 1

\* C2 witness: a GUI session whose stop was requested before connect returned
\* connected, scanned, was stopped by its own thread and disconnected.
C2_Witness ==
    \E t \in Threads :
        /\ pc[t] = "done" /\ stopAt[t] = "connecting"
        /\ calls[t] = <<"connect", "start_scan", "is_scanning", "stop_scan", "disconnect">>

\* C3: every sweep delivered to the callback is on the queue or has been
\* removed by the consumer, exactly once, and the sweeps removed followed by
\* the sweeps still queued are the sweeps delivered, in delivery order: none
\* is lost, duplicated or reordered, however callback and consumer interleave.
C3_QueueFifo ==
    removed \o queue = delivered

\* C3 witness: the callback put the second sweep while a timer tick that had
\* removed the first was still draining the queue.
C3_Witness ==
    /\ uiPc = "tick"
    /\ Len(removed) = 1 /\ Len(queue) = 1 /\ Len(delivered) = 2

\* a failure f shows in the messages m of the run it happened in
Reported(f, m) ==
    CASE f = "connect_false" ->
            Has(m, "error:Failed to connect") \/ Has(m, "print:Failed to connect")
      [] f \in {"connect_raised", "start_scan_raised", "is_scanning_raised",
                "stop_scan_raised"} ->
            Has(m, "error:Scanner error") \/ Has(m, "print:Error during scan")
      [] f = "disconnect_raised" ->
            Has(m, "print:Error during cleanup")
      [] OTHER -> FALSE

\* C4 (as claimed): every failure of a finished scan session, a failed
\* disconnect included, was reported by a message of that session.
C4_FailuresSurfaced ==
    \A t \in Threads : pc[t] = "done" => \A f \in fails[t] : Reported(f, msgs[t])

\* C5: no failure is fatal or retried: after a failure the thread is in its
\* finally block or has ended normally, connect is called exactly once per
\* session, and the window is never stuck: when the UI is idle Start or Stop
\* can be pressed, a Stop handler in progress can finish, and when a handler
\* returns to idle with Stop disabled, Start is enabled.
C5_NoFatalNoRetry ==
    /\ \A t \in Threads :
        variant \in GuiVariants =>
            /\ fails[t] # {} => pc[t] \in {"finally", "done"}
            /\ Count(calls[t], "connect") = (IF pc[t] \in {"none", "connect"} THEN 0 ELSE 1)
    /\ variant \in GuiVariants /\ uiPc = "idle" =>
            /\ startBtn # stopBtn
            /\ nthreads < MaxSessions /\ (\E t \in Threads : Free(t)) =>
                  ENABLED OnStart \/ ENABLED OnStop_set
            /\ stopBtn => ENABLED OnStop_set
    /\ uiPc # "idle" => ENABLED (OnStop_is_scanning \/ OnStop_stop_scan)

\* C5 witness: the second session ended in an error raised by start_scan, the
\* user has pressed Stop, and Start can be pressed again.
C5_Witness ==
    /\ nthreads = 2
    /\ pc[cur] = "done" /\ "start_scan_raised" \in fails[cur]
    /\ uiPc = "idle" /\ startBtn

\* the last sweep of s that is a non-empty list, NoSweep when there is none
LastNonEmpty(s) ==
    LET full == {i \in 1..Len(s) : s[i].data # <<>>}
    IN  IF full = {} THEN NoSweep ELSE s[MaxOf(full)]

C12_CloseCleansUp ==
    uiPc = "closed" =>
        /\ stopEvent /\ obs.accepted
        /\ Has(obs.closeCalls, "is_scanning:True") => Has(obs.closeCalls, "stop_scan")
        /\ Has(obs.closeCalls, "disconnect")

\* C13 (as claimed): in the GUIs at most one scanner thread at a time has
\* called connect and not yet called disconnect.
C13_OneThreadAtATime ==
    variant \in GuiVariants =>
        Cardinality({t \in Threads :
            Has(calls[t], "connect") /\ ~Has(calls[t], "disconnect")}) <= 1

\* a step in which session t's thread calls stop_scan, and one in which the
\* Stop handler does
ThreadStopScan(t) == calls'[t] = Append(calls[t], "stop_scan")
UiStopScan == uiPc = "stop_stop_scan" /\ uiPc' = "idle"

\* C14 (as claimed): in the GUIs every call of stop_scan, by a scanner thread
\* or by the Stop handler, is made while the library is scanning, and the Stop
\* handler does not call it for a session whose thread has called it already.
C14_StopScanOnce ==
    [][(variant \in GuiVariants) =>
        ((\A t \in Threads : ThreadStopScan(t) => scanning)
         /\ (UiStopScan => (scanning /\ ~Has(calls[cur], "stop_scan"))))]_vars

\* the settings the axis of a variant is computed from: the canvas' own copy
\* in the GUIs; the console's START_FREQ, END_FREQ and FREQ_STEP have the
\* values the canvas starts with
SpacingOf(n) ==
    IF variant = "extended" THEN <<canvas.end_freq - canvas.start_freq, n - 1>>
    ELSE <<canvas.freq_step, 1>>

\* C6 (as claimed): in every variant the axis drawn for a sweep of N readings
\* has N points, starts at the start frequency, ends at the end frequency
\* (N >= 2) and has spacing (end - start)/(N - 1).
C6_AxisStartToEnd ==
    [][plotted' # plotted =>
        LET f == plotted'.freqs
            N == Len(plotted'.rssi)
        IN  /\ Len(f) = N
            /\ N >= 1 => FracEq(f[1], <<canvas.start_freq, 1>>)
            /\ N >= 2 => FracEq(f[N], <<canvas.end_freq, 1>>)
            /\ \A i \in 1..(N - 1) :
                FracEq(FracSub(f[i + 1], f[i]),
                       <<canvas.end_freq - canvas.start_freq, N - 1>>)]_vars

\* C6 (amended): in every variant the axis drawn for a sweep of N readings has
\* N evenly spaced points and starts at the start frequency.  In the extended
\* GUI the spacing is (end - start)/(N - 1) and the last point is the end
\* frequency (N >= 2); in the basic GUI and the console the spacing is the
\* frequency step, whatever the end frequency is.
C6_AxisEvenlySpaced ==
    [][plotted' # plotted =>
        LET f == plotted'.freqs
            N == Len(plotted'.rssi)
        IN  /\ Len(f) = N
            /\ N >= 1 => FracEq(f[1], <<canvas.start_freq, 1>>)
            /\ \A i \in 1..(N - 1) : FracEq(FracSub(f[i + 1], f[i]), SpacingOf(N))
            /\ variant = "extended" /\ N >= 2 => FracEq(f[N], <<canvas.end_freq, 1>>)]_vars

\* C6 witness: the basic GUI has drawn a sweep of two or more readings whose
\* axis advances by the frequency step and does not end at the end frequency.
C6_Witness ==
    /\ variant = "basic"
    /\ Len(plotted.rssi) = MaxLen /\ Len(plotted.freqs) = MaxLen
    /\ FracEq(FracSub(plotted.freqs[2], plotted.freqs[1]), <<canvas.freq_step, 1>>)
    /\ ~FracEq(plotted.freqs[MaxLen], <<canvas.end_freq, 1>>)

\* the list parse_rssi_input is to return for a text that holds the pattern
\* with integers between the brackets
ExpectedReadings(text) ==
    LET pieces == split(group1(text, re_search(text)))
    IN  [k \in 1..Len(pieces) |-> int(pieces[k])]
AllIntegers(text) ==
    LET pieces == split(group1(text, re_search(text)))
    IN  \A k \in 1..Len(pieces) : IsIntLiteral(pieces[k])

\* C7: parse_rssi_input never raises and returns a list of integers: the
\* integers between the brackets when the text holds the pattern and they are
\* all integers, printing nothing; the empty list, after a diagnostic, when the
\* pattern is absent, the bracket contents are not all integers, or the
\* argument is no text at all.
C7_ParseTotal ==
    parsed # NotCalled =>
        /\ parsed.status = "return"
        /\ \A k \in 1..Len(parsed.ret) : parsed.ret[k] \in Int
        /\ IF input_text.is_str /\ re_search(input_text.text) # <<0, 0>>
              /\ AllIntegers(input_text.text)
           THEN parsed.ret = ExpectedReadings(input_text.text) /\ parsed.out = ""
           ELSE parsed.ret = <<>> /\ parsed.out # ""
        /\ input_text.is_str /\ re_search(input_text.text) = <<0, 0>> =>
              parsed.out = "No valid RSSI data found in the input."

\* C7 witness: the text "Received .. RSSI level readings: [-1,1]" was parsed
\* into the list [-1, 1].
C7_Witness ==
    /\ input_text.text = <<"H[", "-", "1", ",", "1", "]">>
    /\ parsed.status = "return" /\ parsed.ret = <<0 - 1, 1>> /\ parsed.out = ""

\* the i-th of n frequencies interpolated between the window's start and end
Interpolated(w, i, n) ==
    IF n = 1 THEN <<w.start_freq, 1>>
    ELSE <<w.start_freq * (n - 1) + (i - 1) * (w.end_freq - w.start_freq), n - 1>>

\* C8: in the extended GUI a write to the log appends, after a header row
\* only if the file did not exist, exactly one row per reading of the sweep,
\* in order, row i holding the i-th interpolated frequency and the i-th
\* reading, all rows with one timestamp; an export writes the header and
\* exactly one such row per reading of latest_data.
C8_CsvRows ==
    [][/\ logFile' # logFile =>
            LET sw == Head(queue)
                N == Len(sw.data)
                old == Len(logFile.rows)
                hdr == IF logFile.exists THEN 0 ELSE 1
                new == logFile'.rows
            IN  /\ queue # <<>> /\ logFile'.exists
                /\ Len(new) = old + hdr + N
                /\ SubSeq(new, 1, old) = logFile.rows
                /\ hdr = 1 => new[old + 1] = LogHeader
                /\ \A i \in 1..N :
                    /\ new[old + hdr + i].kind = "row"
                    /\ new[old + hdr + i].rssi = sw.data[i]
                    /\ FracEq(new[old + hdr + i].freq, Interpolated(win, i, N))
                    /\ new[old + hdr + i].ts = new[old + hdr + 1].ts
       /\ exportFile' # exportFile =>
            LET N == Len(latest_data.data)
            IN  /\ Len(exportFile') = N + 1
                /\ exportFile'[1] = ExportHeader
                /\ \A i \in 1..N :
                    /\ exportFile'[i + 1].kind = "row"
                    /\ exportFile'[i + 1].rssi = latest_data.data[i]
                    /\ FracEq(exportFile'[i + 1].freq, Interpolated(win, i, N))]_vars

\* C8 witness: the log, created by this run, holds its header and the rows of
\* two sweeps logged at different times, and an export has been written.
C8_Witness ==
    /\ variant = "extended"
    /\ Len(logFile.rows) = 1 + 2 * MaxLen
    /\ logFile.rows[1] = LogHeader
    /\ logFile.rows[2].ts # logFile.rows[2 + MaxLen].ts
    /\ Len(exportFile) = 1 + MaxLen

\* C9: in the extended GUI latest_data is the last non-empty sweep removed
\* from the queue, and empty while there is none, whatever ticks, Start, Stop,
\* logging toggles and configuration changes have happened; the chart holds
\* the readings of that same sweep and of no other.
C9_LatestData ==
    variant = "extended" =>
        /\ latest_data = LastNonEmpty(removed)
        /\ plotted.id = latest_data.id /\ plotted.rssi = latest_data.data

\* C9 witness: a non-empty sweep and then an empty one have been removed, and
\* the session was stopped, logging switched on and the step changed.
C9_Witness ==
    /\ variant = "extended" /\ uiPc = "idle"
    /\ Len(removed) = 2 /\ removed[1].data # <<>> /\ removed[2].data = <<>>
    /\ latest_data = removed[1]
    /\ stopAt[1] # "none" /\ logging_enabled
    /\ win.freq_step # DEFAULT_FREQ_STEP /\ win.scan_interval # DEFAULT_SCAN_INTERVAL

\* C10: within one scanner-thread run connect is the first library call,
\* start_scan follows only a connect that returned True, stop_scan is called
\* only once the monitoring loop is left for good, disconnect is the last
\* library call and 'Disconnected' the last message.
C10_CallOrder ==
    \A t \in Threads :
        variant \in GuiVariants =>
            /\ Len(calls[t]) > 0 => calls[t][1] = "connect"
            /\ \A i \in 1..Len(calls[t]) :
                /\ calls[t][i] = "start_scan" =>
                      /\ i = 2
                      /\ msgs[t][1] = "status:Connected"
                      /\ ~Has(msgs[t], "error:Failed to connect")
                /\ calls[t][i] = "stop_scan" =>
                      /\ i > 2 /\ calls[t][i - 1] = "is_scanning"
                      /\ pc[t] \in {"finally", "done"}
                /\ calls[t][i] = "disconnect" => i = Len(calls[t]) /\ pc[t] = "done"
            /\ Count(msgs[t], "status:Disconnected") = (IF pc[t] = "done" THEN 1 ELSE 0)
            /\ pc[t] = "done" =>
                  /\ Last(calls[t]) = "disconnect"
                  /\ Last(msgs[t]) = "status:Disconnected"

\* C10 witness: a run that scanned, hit an exception in stop_scan, reported
\* it and then disconnected.
C10_Witness ==
    \E t \in Threads :
        /\ variant \in GuiVariants /\ pc[t] = "done"
        /\ calls[t] = <<"connect", "start_scan", "is_scanning", "stop_scan", "disconnect">>
        /\ msgs[t] = <<"status:Connected", "error:Scanner error", "status:Disconnected">>

\* C15: in the basic GUI the canvas always has start_freq < end_freq and
\* rssi_min < rssi_max: a spin-box change after which the window's values have
\* start >= end or rssi_min >= rssi_max leaves the canvas' limits and step as
\* they were, and any other change copies the window's values to the canvas.
C15_CanvasLimitsValid ==
    /\ [](variant = "basic" =>
            canvas.start_freq < canvas.end_freq /\ canvas.rssi_min < canvas.rssi_max)
    /\ [][(variant = "basic" /\ win' # win) =>
            IF win'.start_freq >= win'.end_freq \/ win'.rssi_min >= win'.rssi_max
            THEN canvas' = canvas
            ELSE canvas' = CanvasOf(win')]_vars

\* C15 witness: the window holds a start frequency that is not below its end
\* frequency; the canvas has kept the valid limits and the step of an earlier
\* change, which are not the window's values any more.
C15_Witness ==
    /\ variant = "basic"
    /\ win.start_freq >= win.end_freq
    /\ canvas.start_freq # win.start_freq
    /\ canvas.freq_step # DEFAULT_FREQ_STEP /\ win.freq_step = DEFAULT_FREQ_STEP
    /\ canvas.rssi_max # DEFAULT_RSSI_MAX

====
